---------------------------- MODULE Spec2Model ----------------------------
(***************************************************************************)
(* Model of the t-rex web server (t-rex-webserver/src/server.rs): the      *)
(* request handlers, the middleware they run behind, and the start-up      *)
(* code that registers the services.                                       *)
(*                                                                         *)
(* Strings the code parses are sequences of tokens (a token is a character *)
(* or an unbroken word), so that split, replace and parse are computed.    *)
(* Option<T> is a sequence of length 0 (None) or 1 (Some).                 *)
(* A response is a record: status, the header list in insertion order,     *)
(* the body, and the per-response encoding override set by                 *)
(* BodyEncoding::encoding ("Auto" when the handler sets none).             *)
(* A handler that panics produces no response: status 0.                   *)
(***************************************************************************)
EXTENDS Integers, Sequences, FiniteSets, TLC

VARIABLES
    config,         \* ApplicationCfg: webserver.cache_control_max_age, webserver.static_, service.mvt.viewer
    store,          \* tiles the external tile cache holds (set of tile keys)
    embedded_fonts, \* keys of the font files embedded at build time (fonts())
    STATIC_FILES,   \* lazy_static table of embedded assets: None until first use
    workers,        \* per handling context: the request in flight and its locals
    disk,           \* directories on disk: dir name -> Option<set of files>
    pc,             \* position of webserver() in its start-up sequence
    port_free,      \* whether the configured address can be bound
    app,            \* services registered on the App, in registration order
    default_service,\* App::default_service, None when not set
    log,            \* info!/warn! records written during start-up
    last            \* request and response of the last whole-handler run

vars == <<config, store, embedded_fonts, STATIC_FILES, workers, disk, pc,
          port_free, app, default_service, log, last>>

--------------------------------------------------------------------------
(* Bounds *)

NumWorkers == 2
MaxFontLen == 5
MaxPointsLen == 7
MaxDirs == 2

--------------------------------------------------------------------------
(* Option and sequence helpers *)

None == <<>>

Some(v) == <<v>>

IsSome(o) == Len(o) = 1

RECURSIVE SeqsUpTo(_, _)
SeqsUpTo(S, n) ==
    IF n = 0 THEN {<<>>}
    ELSE LET shorter == SeqsUpTo(S, n - 1)
         IN  shorter \cup {Append(s, c) : s \in shorter, c \in S}

\* str::split(sep): the pieces between separators; always at least one piece.
RECURSIVE SplitFrom(_, _, _, _)
SplitFrom(s, sep, i, cur) ==
    IF i > Len(s) THEN <<cur>>
    ELSE IF s[i] = sep THEN <<cur>> \o SplitFrom(s, sep, i + 1, <<>>)
    ELSE SplitFrom(s, sep, i + 1, Append(cur, s[i]))

Split(s, sep) == SplitFrom(s, sep, 1, <<>>)

--------------------------------------------------------------------------
(* Responses *)

Response(status, headers, body, encoding) ==
    [status |-> status, headers |-> headers, body |-> body, encoding |-> encoding]

\* No response at all: the handler panicked and unwound its handling context.
Panicked == Response(0, <<>>, <<>>, "Auto")

HeaderCount(resp, name, value) ==
    Cardinality({i \in 1..Len(resp.headers) :
                    resp.headers[i][1] = name /\ resp.headers[i][2] = value})

HasHeader(resp, name) == \E i \in 1..Len(resp.headers) : resp.headers[i][1] = name

DefaultMaxAge == 300


--------------------------------------------------------------------------
(* Request headers *)

\* Accept-Encoding header values: the header string as tokens; ascii is
\* FALSE for a value HeaderValue::to_str rejects.
AcceptEncodings ==
    { None,
      Some([ascii |-> TRUE,  str |-> <<"gzip">>]),
      Some([ascii |-> TRUE,  str |-> <<"br">>]),
      Some([ascii |-> TRUE,  str |-> <<"gzip", ",", "br">>]),
      Some([ascii |-> FALSE, str |-> <<"gzip">>]) }

Contains(str, tok) == \E i \in 1..Len(str) : str[i] = tok

\* server.rs 128-137: the gzip flag of tile_pbf.
AcceptsGzip(accept_encoding) ==
    IF ~IsSome(accept_encoding) THEN FALSE
    ELSE IF ~accept_encoding[1].ascii THEN FALSE
    ELSE Contains(accept_encoding[1].str, "gzip")

--------------------------------------------------------------------------
(* Bodies.  A body is a record: data names the payload, enc lists the     *)
(* content codings applied to it, outermost first.                        *)

Body(enc, data) == [enc |-> enc, data |-> data]

EmptyBody == Body(<<>>, <<"empty">>)

JsonBody(doc) == Body(<<>>, <<"json", doc>>)

--------------------------------------------------------------------------
(* External tile cache (MvtService::tile_cached)                          *)

Tilesets == {"t1"}

TileKeys == {<<"t1", 0, 0, 0>>, <<"t1", 1, 0, 1>>}

\* The stored bytes of a tile, in the coding the caller asked for.
StoredTile(key, gzip) == Body(IF gzip THEN <<"gzip">> ELSE <<>>, <<"tile", key>>)

tile_cached(st, tileset, x, y, z, gzip) ==
    IF <<tileset, z, x, y>> \in st
    THEN Some(StoredTile(<<tileset, z, x, y>>, gzip))
    ELSE None

--------------------------------------------------------------------------
(* tile_pbf, server.rs 118-155 *)

\* format!("max-age={}", cache_max_age)
MaxAgeValue(n) == <<"max-age=", n>>

\* Mutant: the configured value is ignored.
CacheMaxAgeDefault(cfg) == DefaultMaxAge

\* config.webserver.cache_control_max_age.unwrap_or(300)
CacheMaxAge(cfg) ==
    IF IsSome(cfg.cache_control_max_age) THEN cfg.cache_control_max_age[1]
    ELSE DefaultMaxAge

\* if_true(gzip, |r| r.encoding(Identity).header(CONTENT_ENCODING, "gzip"))
GzipHeaders(gzip) ==
    IF gzip THEN << <<"content-encoding", <<"gzip">>>> >> ELSE <<>>

\* Mutant: the encoding override is left out.
GzipEncodingAuto(gzip) == "Auto"

GzipEncoding(gzip) == IF gzip THEN "Identity" ELSE "Auto"

\* Mutant: an absent tile is answered as an error.
TileResponseMiss404(cfg, gzip, tile) ==
    IF IsSome(tile)
    THEN Response(200,
                  << <<"content-type", <<"application/x-protobuf">>>> >>
                    \o GzipHeaders(gzip)
                    \o << <<"cache-control", MaxAgeValue(CacheMaxAge(cfg))>> >>,
                  tile[1],
                  GzipEncoding(gzip))
    ELSE Response(404, <<>>, EmptyBody, "Auto")

\* The response built from the cache result (lines 141-153).
TileResponse(cfg, gzip, tile) ==
    IF IsSome(tile)
    THEN Response(200,
                  << <<"content-type", <<"application/x-protobuf">>>> >>
                    \o GzipHeaders(gzip)
                    \o << <<"cache-control", MaxAgeValue(CacheMaxAge(cfg))>> >>,
                  tile[1],
                  GzipEncoding(gzip))
    ELSE Response(204, <<>>, EmptyBody, "Auto")

--------------------------------------------------------------------------
(* Compress middleware, server.rs 226 (.wrap(Compress::default())).       *)
(* It negotiates a coding from Accept-Encoding and encodes the body       *)
(* unless the response overrides the encoding with Identity, already      *)
(* carries Content-Encoding, or has an empty body.                        *)
(* The Logger and Cors wrappers of lines 225 and 227 leave status, body    *)
(* and these headers of a GET request without an Origin header alone and   *)
(* are left out.                                                           *)

Negotiated(accept_encoding) ==
    IF ~IsSome(accept_encoding) THEN "identity"
    ELSE IF ~accept_encoding[1].ascii THEN "identity"
    ELSE IF Contains(accept_encoding[1].str, "br") THEN "br"
    ELSE IF Contains(accept_encoding[1].str, "gzip") THEN "gzip"
    ELSE "identity"

Compress(accept_encoding, resp) ==
    LET coding == Negotiated(accept_encoding)
        can_encode == /\ resp.status # 0
                      /\ resp.encoding # "Identity"
                      /\ ~HasHeader(resp, "content-encoding")
                      /\ resp.body # EmptyBody
                      /\ coding # "identity"
    IN  IF can_encode
        THEN [resp EXCEPT !.headers = Append(@, <<"content-encoding", <<coding>>>>),
                          !.body = Body(<<coding>> \o @.enc, @.data)]
        ELSE resp

--------------------------------------------------------------------------
(* JSON pass-through handlers, server.rs 49-52 and 92-116 *)

MetaKinds == {"index", "tilejson", "style", "metadata"}

\* Result<json>.unwrap() then HttpResponse::Ok().json(json)
JsonResponse(kind, result_ok) ==
    IF result_ok
    THEN Response(200, << <<"content-type", <<"application/json">>>> >>,
                  JsonBody(kind), "Auto")
    ELSE Panicked

--------------------------------------------------------------------------
(* Embedded assets, server.rs 157-172 *)

\* StaticFiles::init(): the table of files embedded at build time.
EmbeddedKeys == { <<"index", ".", "html">>, <<"viewer", ".", "js">> }

StaticFilesInit ==
    [k \in EmbeddedKeys |-> [content |-> Body(<<>>, <<"embedded", k>>),
                             mime |-> <<"mime", k[Len(k)]>>]]

\* lazy_static: the table is built on first dereference and kept.
Deref(static_files) == IF IsSome(static_files) THEN static_files ELSE Some(StaticFilesInit)

\* StaticFiles::content(None, key)
Content(table, key) == IF key \in DOMAIN table THEN Some(table[key]) ELSE None

\* req.path()[1..]
PathKey(path) == Tail(path)

static_file_handler(table, path) ==
    LET content == Content(table, PathKey(path))
    IN  IF IsSome(content)
        THEN Response(200,
                      << <<"access-control-allow-origin", <<"*">>>>,
                         <<"content-type", content[1].mime>> >>,
                      content[1].content, "Auto")
        ELSE Response(404, <<>>, EmptyBody, "Auto")

--------------------------------------------------------------------------
(* fonts_pbf, server.rs 59-85 *)

\* "Roboto Regular", pushed at line 69.
Fallback == <<"R", "o", "b", "o", "t", "o", " ", "R", "e", "g", "u", "l", "a", "r">>

\* str::replace("%20", " "): non-overlapping matches, left to right.
RECURSIVE ReplacePct20(_)
ReplacePct20(s) ==
    IF Len(s) = 0 THEN <<>>
    ELSE IF Len(s) >= 3 /\ s[1] = "%" /\ s[2] = "2" /\ s[3] = "0"
         THEN <<" ">> \o ReplacePct20(SubSeq(s, 4, Len(s)))
         ELSE <<s[1]>> \o ReplacePct20(Tail(s))

\* format!("fonts/{}/{}.pbf", font.replace("%20", " "), range)
FontKey(font, range) ==
    <<"fonts/">> \o ReplacePct20(font) \o <<"/">> \o range \o <<".pbf">>

\* The embedded file stored under a key; the files are gzip compressed.
FontFile(key) == Body(<<"gzip">>, <<"font", key>>)

\* fonts(): the HashMap of the embedded font files.
fonts(embedded) == [k \in embedded |-> FontFile(k)]

\* Mutant: the fallback family is not appended.
FontStackNoFallback(fontlist) == Split(fontlist, ",")

\* Lines 68-69: fontlist.split(",") followed by the pushed fallback.
FontStack(fontlist) == Append(Split(fontlist, ","), Fallback)

\* Lines 70-84: the loop over the families from position i, with its break.
RECURSIVE FontLoop(_, _, _, _)
FontLoop(fontpbfs, stack, range, i) ==
    IF i > Len(stack) THEN Response(404, <<>>, EmptyBody, "Auto")
    ELSE LET key == FontKey(stack[i], range)
         IN  IF key \in DOMAIN fontpbfs
             THEN Response(200,
                           << <<"content-type", <<"application/x-protobuf">>>>,
                              <<"content-encoding", <<"gzip">>>> >>,
                           fontpbfs[key], "Identity")
             ELSE FontLoop(fontpbfs, stack, range, i + 1)

fonts_pbf(embedded, fontlist, range) ==
    FontLoop(fonts(embedded), FontStack(fontlist), range, 1)

--------------------------------------------------------------------------
(* drilldown_handler, server.rs 174-199 *)

Digits == {"0", "1", "2"}

DigitValue(c) == IF c = "0" THEN 0 ELSE IF c = "1" THEN 1 ELSE 2

\* str::parse::<f64>() on a token of digits and other characters: Ok for a
\* non-empty run of digits, Err otherwise.
ParsesAsNumber(tok) == Len(tok) > 0 /\ \A i \in 1..Len(tok) : tok[i] \in Digits

RECURSIVE NumberValue(_)
NumberValue(tok) ==
    IF Len(tok) = 0 THEN 0
    ELSE 10 * NumberValue(SubSeq(tok, 1, Len(tok) - 1)) + DigitValue(tok[Len(tok)])

\* Lines 187-195: split(","), parse every piece, collect.  The expect()
\* panics on the first piece that does not parse: None stands for the panic.
ParsePoints(points) ==
    LET toks == Split(points, ",")
    IN  IF \A i \in 1..Len(toks) : ParsesAsNumber(toks[i])
        THEN Some([i \in 1..Len(toks) |-> NumberValue(toks[i])])
        ELSE None

\* struct DrilldownParams, lines 174-179: the fields deserialized from the
\* query string; any other query parameter is dropped.
DrilldownParams(query) ==
    [points |-> query.points, minzoom |-> query.minzoom, maxzoom |-> query.maxzoom]

\* Mutant: minzoom and maxzoom change places.
DrilldownArgsSwapped(params, points) ==
    [tileset |-> None, minzoom |-> params.maxzoom, maxzoom |-> params.minzoom,
     points |-> points, progress |-> FALSE]

\* Lines 185-186 and 196: the arguments of service.drilldown.
DrilldownArgs(params, points) ==
    [tileset |-> None, minzoom |-> params.minzoom, maxzoom |-> params.maxzoom,
     points |-> points, progress |-> FALSE]

\* The handler on the deserialized query.  stats_ok is what the external
\* computation does with the arguments it is given: it returns statistics,
\* or it fails and the handler unwinds with it.
drilldown_handler(params, stats_ok) ==
    LET points == ParsePoints(params.points)
    IN  IF points = None
        THEN [call |-> None, resp |-> Panicked]
        ELSE [call |-> Some(DrilldownArgs(params, points[1])),
              resp |-> IF stats_ok
                       THEN Response(200, << <<"content-type", <<"application/json">>>> >>,
                                     JsonBody("stats"), "Auto")
                       ELSE Panicked]

--------------------------------------------------------------------------
(* Values of the variables a specification does not exercise *)

Idle == [state |-> "idle", req |-> None, tile |-> None, calls |-> 0,
         resp |-> None, sent |-> None]

NoConfig == [viewer |-> FALSE, cache_control_max_age |-> None, static_ |-> <<>>]

NoLast == [req |-> None, resp |-> None, call |-> None]

At(at, i) == [at |-> at, i |-> i]

Serving == At("serving", 0)

--------------------------------------------------------------------------
(* Serving: handlers running concurrently in NumWorkers handling contexts *)

Workers == 1..NumWorkers

MaxAges == {None, Some(60)}

TileRequests ==
    [kind : {"tile"}, key : TileKeys, accept_encoding : AcceptEncodings]

MetaRequests ==
    [kind : MetaKinds, tileset : Tilesets, upstream_ok : BOOLEAN,
     accept_encoding : {None}]

StaticPaths == { <<"/", "index", ".", "html">>, <<"/", "nope">> }

StaticRequests == [kind : {"static"}, path : StaticPaths, accept_encoding : {None}]

FontRequests ==
    [kind : {"fonts"}, fontlist : { <<"2">>, <<"A", ",", "%", "2", "0">> },
     range : { <<"0-255">> }, accept_encoding : {None}]

ServeInit ==
    /\ config \in [viewer : BOOLEAN, cache_control_max_age : MaxAges, static_ : {<<>>}]
    /\ store \in SUBSET TileKeys
    /\ embedded_fonts = { FontKey(<<" ">>, <<"0-255">>), FontKey(Fallback, <<"0-255">>) }
    /\ STATIC_FILES = None
    /\ workers = [w \in Workers |-> Idle]
    /\ disk = <<>>
    /\ pc = Serving
    /\ port_free = TRUE
    /\ app = <<>>
    /\ default_service = None
    /\ log = <<>>
    /\ last = NoLast

\* tile_pbf up to and including the call of the tile cache (lines 124-138).
TileCall(w) ==
    /\ workers[w].state = "idle"
    /\ \E r \in TileRequests :
         LET gzip == AcceptsGzip(r.accept_encoding)
         IN  workers' = [workers EXCEPT ![w] =
                 [state |-> "called", req |-> Some(r),
                  tile |-> tile_cached(store, r.key[1], r.key[3], r.key[4], r.key[2], gzip),
                  calls |-> 1, resp |-> None, sent |-> None]]
    /\ UNCHANGED <<config, store, embedded_fonts, STATIC_FILES, disk, pc,
                   port_free, app, default_service, log, last>>

\* The handler's own local `tile` (line 138), read at line 141.
CacheResultShared(ws, w) == ws[CHOOSE v \in DOMAIN ws : ws[v].state = "called"].tile

CacheResult(ws, w) == ws[w].tile

\* tile_pbf from the cache result to the response (lines 139-154), then the
\* Compress middleware on the way out.
TileRespond(w) ==
    /\ workers[w].state = "called"
    /\ LET r == workers[w].req[1]
           gzip == AcceptsGzip(r.accept_encoding)
           resp == TileResponse(config, gzip, CacheResult(workers, w))
       IN  workers' = [workers EXCEPT ![w].state = "done",
                          ![w].resp = Some(resp),
                          ![w].sent = Some(Compress(r.accept_encoding, resp))]
    /\ UNCHANGED <<config, store, embedded_fonts, STATIC_FILES, disk, pc,
                   port_free, app, default_service, log, last>>

\* mvt_metadata, tileset_tilejson, tileset_style_json, tileset_metadata_json.
MetaHandler(w) ==
    /\ workers[w].state = "idle"
    /\ \E r \in MetaRequests :
         workers' = [workers EXCEPT ![w] =
             [state |-> "done", req |-> Some(r), tile |-> None, calls |-> 0,
              resp |-> Some(JsonResponse(r.kind, r.upstream_ok)),
              sent |-> Some(Compress(r.accept_encoding,
                                     JsonResponse(r.kind, r.upstream_ok)))]]
    /\ UNCHANGED <<config, store, embedded_fonts, STATIC_FILES, disk, pc,
                   port_free, app, default_service, log, last>>

\* static_file_handler, the default service when the viewer is enabled.
StaticHandler(w) ==
    /\ workers[w].state = "idle"
    /\ config.viewer
    /\ \E r \in StaticRequests :
         workers' = [workers EXCEPT ![w] =
             [state |-> "done", req |-> Some(r), tile |-> None, calls |-> 0,
              resp |-> Some(static_file_handler(Deref(STATIC_FILES)[1], r.path)),
              sent |-> Some(Compress(r.accept_encoding,
                            static_file_handler(Deref(STATIC_FILES)[1], r.path)))]]
    /\ STATIC_FILES' = Deref(STATIC_FILES)
    /\ UNCHANGED <<config, store, embedded_fonts, disk, pc,
                   port_free, app, default_service, log, last>>

\* fonts_pbf: the map is built from the embedded files and probed.
FontHandler(w) ==
    /\ workers[w].state = "idle"
    /\ \E r \in FontRequests :
         LET resp == fonts_pbf(embedded_fonts, r.fontlist, r.range)
         IN  workers' = [workers EXCEPT ![w] =
                 [state |-> "done", req |-> Some(r), tile |-> None, calls |-> 0,
                  resp |-> Some(resp),
                  sent |-> Some(Compress(r.accept_encoding, resp))]]
    /\ UNCHANGED <<config, store, embedded_fonts, STATIC_FILES, disk, pc,
                   port_free, app, default_service, log, last>>

\* The response is written out and the handling context takes the next request.
Finish(w) ==
    /\ workers[w].state = "done"
    /\ workers' = [workers EXCEPT ![w] = Idle]
    /\ UNCHANGED <<config, store, embedded_fonts, STATIC_FILES, disk, pc,
                   port_free, app, default_service, log, last>>

ServeNext ==
    \E w \in Workers :
        \/ TileCall(w)
        \/ TileRespond(w)
        \/ MetaHandler(w)
        \/ StaticHandler(w)
        \/ FontHandler(w)
        \/ Finish(w)

ServeSpec == ServeInit /\ [][ServeNext]_vars

--------------------------------------------------------------------------
(* Properties of the serving handlers *)

DoneTile(w) == workers[w].state = "done" /\ workers[w].req[1].kind = "tile"

DoneMeta(w) == workers[w].state = "done" /\ workers[w].req[1].kind \in MetaKinds

\* C1: a tile request with well-formed coordinates never fails and ends in
\* exactly one of two ways: the cache returned no tile and the handler
\* answers 204, or the cache returned bytes and the handler answers 200 with
\* content-type application/x-protobuf and exactly those bytes as the body.
C1_TileOutcome ==
    \A w \in Workers :
        DoneTile(w) =>
            LET resp == workers[w].resp[1]
                tile == workers[w].tile
            IN  /\ resp.status \in {200, 204}
                /\ (tile = None) <=> (resp.status = 204)
                /\ tile # None =>
                     /\ resp.status = 200
                     /\ HeaderCount(resp, "content-type", <<"application/x-protobuf">>) = 1
                     /\ resp.body = tile[1]

C1_Witness ==
    /\ \E w \in Workers : DoneTile(w) /\ workers[w].tile = None
                          /\ workers[w].resp[1].status = 204
    /\ \E w \in Workers : DoneTile(w) /\ workers[w].tile # None
                          /\ workers[w].resp[1].status = 200

GzipHit(w) ==
    /\ DoneTile(w)
    /\ AcceptsGzip(workers[w].req[1].accept_encoding)
    /\ workers[w].tile # None

\* C2: for a tile request presenting Accept-Encoding: gzip against a stored
\* tile, the body sent equals the stored (already compressed) bytes, the
\* response carries Content-Encoding: gzip exactly once and no other
\* Content-Encoding, and the handler disables transport compression for
\* the response, so the payload is encoded exactly once.
C2_GzipOnce ==
    \A w \in Workers :
        GzipHit(w) =>
            LET sent == workers[w].sent[1]
            IN  /\ sent.body = StoredTile(workers[w].req[1].key, TRUE)
                /\ sent.body.enc = <<"gzip">>
                /\ HeaderCount(sent, "content-encoding", <<"gzip">>) = 1
                /\ Cardinality({i \in 1..Len(sent.headers) :
                                   sent.headers[i][1] = "content-encoding"}) = 1
                /\ workers[w].resp[1].encoding = "Identity"

\* The client accepts br as well, which the middleware would prefer.
C2_Witness ==
    \E w \in Workers :
        /\ GzipHit(w)
        /\ Negotiated(workers[w].req[1].accept_encoding) = "br"
        /\ workers[w].sent[1].body.enc = <<"gzip">>

ConfiguredMaxAge ==
    IF config.cache_control_max_age = None THEN 300
    ELSE config.cache_control_max_age[1]

\* C4 as stated: every successful tile response, found (200) or absent
\* (204), carries Cache-Control: max-age=N, N the configured
\* cache_control_max_age or 300.
C4_Claim ==
    \A w \in Workers :
        DoneTile(w) /\ workers[w].sent[1].status \in {200, 204} =>
            HeaderCount(workers[w].sent[1], "cache-control",
                        <<"max-age=", ConfiguredMaxAge>>) = 1

\* C4 amended: every found-tile (200) response carries Cache-Control:
\* max-age=N exactly once, N the configured cache_control_max_age or 300;
\* the 204 response for an absent tile carries no Cache-Control header.
C4_HitOnly ==
    \A w \in Workers :
        DoneTile(w) =>
            LET sent == workers[w].sent[1]
            IN  /\ sent.status = 200 =>
                     HeaderCount(sent, "cache-control",
                                 <<"max-age=", ConfiguredMaxAge>>) = 1
                /\ sent.status = 204 => ~HasHeader(sent, "cache-control")

C4_Witness ==
    /\ config.cache_control_max_age # None
    /\ \E w \in Workers : DoneTile(w) /\ workers[w].sent[1].status = 200
    /\ \E w \in Workers : DoneTile(w) /\ workers[w].sent[1].status = 204

\* C7 as stated: when the external call behind /index.json, /{tileset}.json,
\* /{tileset}.style.json or /{tileset}/metadata.json fails, the request ends
\* with an HTTP 500 response.
C7_Claim ==
    \A w \in Workers :
        DoneMeta(w) /\ ~workers[w].req[1].upstream_ok =>
            workers[w].resp[1].status = 500

\* The response of a tile request handled with nothing else in flight.
Solo(cfg, st, r) ==
    LET gzip == AcceptsGzip(r.accept_encoding)
    IN  Compress(r.accept_encoding,
                 TileResponse(cfg, gzip,
                              tile_cached(st, r.key[1], r.key[3], r.key[4], r.key[2], gzip)))

C9_Inv ==
    \A w \in Workers :
        /\ workers[w].state = "called" => workers[w].calls = 1
        /\ DoneTile(w) =>
             /\ workers[w].calls = 1
             /\ workers[w].sent[1] = Solo(config, store, workers[w].req[1])

C9_Step ==
    /\ embedded_fonts' = embedded_fonts
    /\ IsSome(STATIC_FILES) => STATIC_FILES' = STATIC_FILES
    /\ config' = config
    /\ store' = store
    /\ Cardinality({w \in Workers : workers'[w] # workers[w]}) <= 1

\* C9: under any interleaving each tile request gets the response it would
\* get when run alone and makes its own single call of the tile cache; a
\* step of a handler writes only its own request's locals, and the font map
\* and the embedded-asset table are never modified once built.
C9_Independent == [](C9_Inv) /\ [][C9_Step]_vars

\* Two identical requests in flight together, both answered.
C9_Witness ==
    \E v, w \in Workers :
        /\ v # w
        /\ DoneTile(v) /\ DoneTile(w)
        /\ workers[v].req = workers[w].req
        /\ workers[v].tile # None
        /\ IsSome(STATIC_FILES)

--------------------------------------------------------------------------
(* Font resolution over every font list up to MaxFontLen characters *)

FontChars == {"A", "2", "0", "%", ","}

\* The {fonts} path segment is never empty.
FontLists == SeqsUpTo(FontChars, MaxFontLen) \ {<<>>}

FontRanges == { <<"0-255">>, <<"256-511">> }

\* Font files a build may embed.
EmbeddableKeys ==
    { FontKey(<<"2">>, <<"0-255">>),
      FontKey(<<" ">>, <<"0-255">>),
      FontKey(Fallback, <<"0-255">>) }

FontInit ==
    /\ config = NoConfig
    /\ store = {}
    /\ embedded_fonts \in SUBSET EmbeddableKeys
    /\ STATIC_FILES = None
    /\ workers = <<>>
    /\ disk = <<>>
    /\ pc = Serving
    /\ port_free = TRUE
    /\ app = <<>>
    /\ default_service = None
    /\ log = <<>>
    /\ \E fontlist \in FontLists, range \in FontRanges :
         last = [req |-> Some([fontlist |-> fontlist, range |-> range]),
                 resp |-> None, call |-> None]

\* The request received at Init is handled.
FontsPbf ==
    /\ last.resp = None
    /\ last' = [last EXCEPT !.resp = Some(fonts_pbf(embedded_fonts,
                                     last.req[1].fontlist, last.req[1].range))]
    /\ UNCHANGED <<config, store, embedded_fonts, STATIC_FILES, workers, disk, pc,
                   port_free, app, default_service, log>>

FontNext == FontsPbf

FontSpec == FontInit /\ [][FontNext]_vars

\* The families probed: the caller's list, then the fallback family.
Probed(fontlist) == Split(fontlist, ",") \o <<Fallback>>

\* Positions of the probed families that have a file for the range.
Hits(fontlist, range) ==
    {i \in 1..Len(Probed(fontlist)) :
        <<"fonts/">> \o ReplacePct20(Probed(fontlist)[i]) \o <<"/">> \o range
            \o <<".pbf">> \in embedded_fonts}

\* C3: the families are probed in the order caller list then "Roboto
\* Regular"; the response is the file of the first probed family that has
\* one (never a later one), and it is 404 exactly when no probed family,
\* the fallback included, has one.
C3_FirstHit ==
    IsSome(last.resp) =>
        LET r == last.req[1]
            resp == last.resp[1]
            hits == Hits(r.fontlist, r.range)
        IN  /\ (hits = {}) <=> (resp.status = 404)
            /\ hits # {} =>
                 LET first == CHOOSE i \in hits : \A j \in hits : i <= j
                 IN  /\ resp.status = 200
                     /\ resp.body = FontFile(FontKey(Probed(r.fontlist)[first], r.range))

\* The first family misses, a later caller family given with %20 hits, and
\* the fallback, which also has a file, is not returned.
C3_Witness ==
    /\ IsSome(last.resp)
    /\ LET r == last.req[1]
           hits == Hits(r.fontlist, r.range)
       IN  /\ 1 \notin hits
           /\ 2 \in hits
           /\ Len(Probed(r.fontlist)) = 3
           /\ 3 \in hits
           /\ Probed(r.fontlist)[2] = <<"%", "2", "0">>
           /\ last.resp[1].body = FontFile(FontKey(<<" ">>, r.range))

--------------------------------------------------------------------------
(* Drilldown requests over every points string up to MaxPointsLen chars *)

PointChars == {"1", "2", ",", "x"}

PointStrings == SeqsUpTo(PointChars, MaxPointsLen)

Zooms == {None, Some(0), Some(5)}

\* Query strings: every points string with the other parameters absent, and
\* every combination of the other parameters with a few points strings.
DrilldownQueries ==
    [points : PointStrings, minzoom : {None}, maxzoom : {None}, tileset : {None}]
    \cup
    [points : { <<"1", ",", "2">>, <<"1", ",", "x">> },
     minzoom : Zooms, maxzoom : Zooms, tileset : {None} \cup {Some(t) : t \in Tilesets}]

DrillInit ==
    /\ config = NoConfig
    /\ store = {}
    /\ embedded_fonts = {}
    /\ STATIC_FILES = None
    /\ workers = <<>>
    /\ disk = <<>>
    /\ pc = Serving
    /\ port_free = TRUE
    /\ app = <<>>
    /\ default_service = None
    /\ log = <<>>
    /\ \E q \in DrilldownQueries, stats_ok \in BOOLEAN :
         last = [req |-> Some([query |-> q, stats_ok |-> stats_ok]),
                 resp |-> None, call |-> None]

\* The request received at Init is handled.
Drilldown ==
    /\ last.resp = None
    /\ LET out == drilldown_handler(DrilldownParams(last.req[1].query),
                                     last.req[1].stats_ok)
       IN  last' = [last EXCEPT !.resp = Some(out.resp), !.call = out.call]
    /\ UNCHANGED <<config, store, embedded_fonts, STATIC_FILES, workers, disk, pc,
                   port_free, app, default_service, log>>

DrillNext == Drilldown

DrillSpec == DrillInit /\ [][DrillNext]_vars

\* A points string is malformed when a piece between commas is not a
\* number or when the number of pieces is odd.
Malformed(points) ==
    LET toks == Split(points, ",")
    IN  \/ \E i \in 1..Len(toks) : ~ParsesAsNumber(toks[i])
        \/ Len(toks) % 2 = 1

\* C5 as stated: a drilldown request with malformed points ends as a client
\* error (400) and the computation is never invoked for it; a well-formed
\* list reaches the computation as its values in order.
C5_Claim ==
    IsSome(last.resp) =>
        LET q == last.req[1].query
        IN  /\ Malformed(q.points) =>
                 /\ last.resp[1].status = 400
                 /\ last.call = None
            /\ ~Malformed(q.points) =>
                 /\ IsSome(last.call)
                 /\ last.call[1].points
                      = [i \in 1..Len(Split(q.points, ",")) |->
                            NumberValue(Split(q.points, ",")[i])]

\* C8 as stated: a tileset given in the query restricts the computation to
\* that tileset, an absent one means all tilesets, and minzoom and maxzoom
\* are passed unchanged.
C8_Claim ==
    IsSome(last.call) =>
        /\ last.call[1].tileset = last.req[1].query.tileset
        /\ last.call[1].minzoom = last.req[1].query.minzoom
        /\ last.call[1].maxzoom = last.req[1].query.maxzoom

\* C8 amended: the computation is always invoked for all tilesets (tileset
\* None), whether or not the query names a tileset; minzoom and maxzoom are
\* passed unchanged.
C8_AllTilesets ==
    IsSome(last.call) =>
        /\ last.call[1].tileset = None
        /\ last.call[1].minzoom = last.req[1].query.minzoom
        /\ last.call[1].maxzoom = last.req[1].query.maxzoom

C8_Witness ==
    /\ IsSome(last.call)
    /\ last.req[1].query.tileset = Some("t1")
    /\ last.req[1].query.minzoom = Some(0)
    /\ last.req[1].query.maxzoom = Some(5)
    /\ last.call[1].tileset = None

--------------------------------------------------------------------------
(* webserver(), server.rs 201-272: the services of the App                *)
(*                                                                         *)
(* A path is a token sequence beginning with "/".  A resource matches a    *)
(* path by its pattern; a Files service matches every path under its       *)
(* mount.  The App hands a request to the first matching service in        *)
(* registration order, or to its default service.                          *)

Segments(path) == Split(Tail(path), "/")

EndsWith(seg, suffix) ==
    /\ Len(seg) > Len(suffix)
    /\ SubSeq(seg, Len(seg) - Len(suffix) + 1, Len(seg)) = suffix

\* The resource patterns of lines 228-242 and 254; {name} is one or more
\* characters other than "/".
MatchPattern(pattern, path) ==
    LET segs == Segments(path)
        n == Len(segs)
    IN  CASE pattern = "/index.json" ->
               segs = << <<"index", ".", "json">> >>
          [] pattern = "/fontstacks.json" ->
               segs = << <<"fontstacks", ".", "json">> >>
          [] pattern = "/fonts/{fonts}/{range}.pbf" ->
               /\ n = 3
               /\ segs[1] = <<"fonts">>
               /\ Len(segs[2]) > 0
               /\ EndsWith(segs[3], <<".", "pbf">>)
          [] pattern = "/{tileset}.style.json" ->
               n = 1 /\ EndsWith(segs[1], <<".", "style", ".", "json">>)
          [] pattern = "/{tileset}/metadata.json" ->
               n = 2 /\ Len(segs[1]) > 0 /\ segs[2] = <<"metadata", ".", "json">>
          [] pattern = "/{tileset}.json" ->
               n = 1 /\ EndsWith(segs[1], <<".", "json">>)
          [] pattern = "/{tileset}/{z}/{x}/{y}.pbf" ->
               /\ n = 4
               /\ \A i \in 1..3 : Len(segs[i]) > 0
               /\ EndsWith(segs[4], <<".", "pbf">>)
          [] pattern = "/drilldown" ->
               segs = << <<"drilldown">> >>
          [] OTHER -> FALSE

Resource(pattern, handler) == [kind |-> "resource", pattern |-> pattern, handler |-> handler]

\* fs::Files::new(&static_dir.path, dir), line 247.
Files(static_dir) == [kind |-> "files", mount |-> static_dir.path, dir |-> static_dir.dir]

\* Lines 228-242, in registration order.
ApiServices ==
    << Resource("/index.json", "mvt_metadata"),
       Resource("/fontstacks.json", "fontstacks"),
       Resource("/fonts/{fonts}/{range}.pbf", "fonts_pbf"),
       Resource("/{tileset}.style.json", "tileset_style_json"),
       Resource("/{tileset}/metadata.json", "tileset_metadata_json"),
       Resource("/{tileset}.json", "tileset_tilejson"),
       Resource("/{tileset}/{z}/{x}/{y}.pbf", "tile_pbf") >>

\* Line 254.
DrilldownService == Resource("/drilldown", "drilldown_handler")

\* A Files service takes every path that lies under its mount.
UnderMount(mount, path) ==
    LET m == IF mount = <<"/">> THEN <<>> ELSE mount
    IN  /\ Len(path) > Len(m) + 1
        /\ SubSeq(path, 1, Len(m)) = m
        /\ path[Len(m) + 1] = "/"

\* The path below the mount, which Files looks up in its directory.
BelowMount(mount, path) ==
    LET m == IF mount = <<"/">> THEN <<>> ELSE mount
    IN  SubSeq(path, Len(m) + 2, Len(path))

MatchService(svc, path) ==
    IF svc.kind = "files" THEN UnderMount(svc.mount, path)
    ELSE MatchPattern(svc.pattern, path)

\* The first registered service matching the path, from position i on;
\* None when the request goes to the default service.
RECURSIVE Route(_, _, _)
Route(services, path, i) ==
    IF i > Len(services) THEN None
    ELSE IF MatchService(services[i], path) THEN Some(services[i])
    ELSE Route(services, path, i + 1)

\* Mutant: every configured directory counts as present.
is_dir_always(dsk, dir) == TRUE

\* std::path::Path::new(dir).is_dir(), line 245.
is_dir(dsk, dir) == IsSome(dsk[dir])

\* Mutant: the directories are taken last to first.
StaticDirAtReversed(static_dirs, i) == static_dirs[Len(static_dirs) - i + 1]

\* for static_dir in &static_dirs (line 243): the i-th directory taken.
StaticDirAt(static_dirs, i) == static_dirs[i]

--------------------------------------------------------------------------
(* Running the service a request was routed to *)

\* fontstacks(), lines 55-57.
fontstacks == Response(200, << <<"content-type", <<"application/json">>>> >>,
                       JsonBody("fontstacks"), "Auto")

\* The App's fallback: static_file_handler when set (line 255), else 404.
DefaultResponse(dflt, table, path) ==
    IF IsSome(dflt) THEN static_file_handler(table, path)
    ELSE Response(404, <<>>, EmptyBody, "Auto")

\* A file of a directory, as Files serves it.
FileBody(dir, rel) == Body(<<>>, <<"file", dir, rel>>)

\* Files: the file below the mount when the directory holds it, else the
\* App's default service.
FilesResponse(svc, dsk, dflt, table, path) ==
    LET rel == BelowMount(svc.mount, path)
    IN  IF IsSome(dsk[svc.dir]) /\ rel \in dsk[svc.dir][1]
        THEN Response(200, << <<"content-type", <<"mime", rel[Len(rel)]>>>> >>,
                      FileBody(svc.dir, rel), "Auto")
        ELSE DefaultResponse(dflt, table, path)

\* The typed path parameters of tile_pbf (line 121): (String, u8, u32, u32).
TileParams(path) ==
    LET segs == Segments(path)
        y == SubSeq(segs[4], 1, Len(segs[4]) - 2)
    IN  IF Len(segs[1]) = 1 /\ \A n \in {segs[2], segs[3], y} : ParsesAsNumber(n)
        THEN Some(<<segs[1][1], NumberValue(segs[2]), NumberValue(segs[3]), NumberValue(y)>>)
        ELSE None

ResourceResponse(handler, cfg, st, embedded, req) ==
    LET segs == Segments(req.path)
    IN  CASE handler = "mvt_metadata" -> JsonResponse("index", TRUE)
          [] handler = "fontstacks" -> fontstacks
          [] handler = "fonts_pbf" ->
               fonts_pbf(embedded, segs[2], SubSeq(segs[3], 1, Len(segs[3]) - 2))
          [] handler = "tileset_style_json" -> JsonResponse("style", TRUE)
          [] handler = "tileset_metadata_json" -> JsonResponse("metadata", TRUE)
          [] handler = "tileset_tilejson" -> JsonResponse("tilejson", TRUE)
          [] handler = "tile_pbf" ->
               LET p == TileParams(req.path)
               IN  IF p = None THEN Response(404, <<>>, EmptyBody, "Auto")
                   ELSE TileResponse(cfg, FALSE,
                                     tile_cached(st, p[1][1], p[1][3], p[1][4], p[1][2], FALSE))
          [] handler = "drilldown_handler" ->
               drilldown_handler(DrilldownParams([points |-> req.points,
                                                  minzoom |-> None,
                                                  maxzoom |-> None]), TRUE).resp

\* The stage that produced the response.
Stage(routed, dsk, dflt, path) ==
    IF routed = None THEN IF IsSome(dflt) THEN "embedded" ELSE "notfound"
    ELSE IF routed[1].kind = "resource" THEN routed[1].handler
    ELSE IF IsSome(dsk[routed[1].dir])
            /\ BelowMount(routed[1].mount, path) \in dsk[routed[1].dir][1]
         THEN "files"
         ELSE IF IsSome(dflt) THEN "embedded" ELSE "notfound"

--------------------------------------------------------------------------
(* Start-up followed by requests routed through the App *)

DirNames == {"pub", "alt"}

\* What each directory holds when it exists.
DirFiles(dir) ==
    IF dir = "pub"
    THEN { <<"index", ".", "html">>, <<"app", ".", "js">>, <<"t1", ".", "json">> }
    ELSE { <<"index", ".", "html">>, <<"extra", ".", "css">> }

Mounts == { <<"/">>, <<"/", "static">> }

StaticDirCfgs == [path : Mounts, dir : DirNames]

RoutePaths ==
    { <<"/", "index", ".", "json">>,
      <<"/", "fontstacks", ".", "json">>,
      <<"/", "fonts", "/", "2", "/", "0-255", ".", "pbf">>,
      <<"/", "t1", ".", "style", ".", "json">>,
      <<"/", "t1", "/", "metadata", ".", "json">>,
      <<"/", "t1", ".", "json">>,
      <<"/", "t1", "/", "0", "/", "0", "/", "0", ".", "pbf">>,
      <<"/", "drilldown">>,
      <<"/", "index", ".", "html">>,
      <<"/", "viewer", ".", "js">>,
      <<"/", "app", ".", "js">>,
      <<"/", "extra", ".", "css">>,
      <<"/", "static", "/", "index", ".", "html">>,
      <<"/", "static", "/", "extra", ".", "css">>,
      <<"/", "nope">> }

RouteRequests == [path : RoutePaths, points : { <<"1", ",", "2">> }]

RouteInit ==
    /\ config \in [viewer : BOOLEAN, cache_control_max_age : {None},
                   static_ : SeqsUpTo(StaticDirCfgs, MaxDirs)]
    /\ store = { <<"t1", 0, 0, 0>> }
    /\ embedded_fonts = { FontKey(Fallback, <<"0-255">>) }
    /\ STATIC_FILES = None
    /\ workers = <<>>
    /\ disk \in {[d \in DirNames |-> IF d \in present THEN Some(DirFiles(d)) ELSE None] :
                    present \in SUBSET DirNames}
    /\ pc = At("bind", 0)
    /\ port_free \in BOOLEAN
    /\ app = <<>>
    /\ default_service = None
    /\ log = <<>>
    /\ last = NoLast

\* .bind(&bind_addr).expect(...), lines 259-260: the process panics when the
\* address cannot be bound.
Bind ==
    /\ pc.at = "bind"
    /\ pc' = IF port_free THEN At("api", 0) ELSE At("failed", 0)
    /\ UNCHANGED <<config, store, embedded_fonts, STATIC_FILES, workers, disk,
                   port_free, app, default_service, log, last>>

\* The App factory, lines 222-242: the fixed resources.
RegisterApi ==
    /\ pc.at = "api"
    /\ app' = ApiServices
    /\ pc' = At("dirs", 1)
    /\ UNCHANGED <<config, store, embedded_fonts, STATIC_FILES, workers, disk,
                   port_free, default_service, log, last>>

\* One round of the loop of lines 243-251.
RegisterStaticDir ==
    /\ pc.at = "dirs"
    /\ pc.i <= Len(config.static_)
    /\ LET static_dir == StaticDirAt(config.static_, pc.i)
       IN  IF is_dir(disk, static_dir.dir)
           THEN /\ log' = Append(log, <<"info", static_dir.dir>>)
                /\ app' = Append(app, Files(static_dir))
           ELSE /\ log' = Append(log, <<"warn", static_dir.dir>>)
                /\ app' = app
    /\ pc' = At("dirs", pc.i + 1)
    /\ UNCHANGED <<config, store, embedded_fonts, STATIC_FILES, workers, disk,
                   port_free, default_service, last>>

\* Lines 252-257, after the loop: the viewer's services; the App is complete
\* and the server runs.
RegisterViewer ==
    /\ pc.at = "dirs"
    /\ pc.i > Len(config.static_)
    /\ IF config.viewer
       THEN /\ app' = Append(app, DrilldownService)
            /\ default_service' = Some("static_file_handler")
       ELSE UNCHANGED <<app, default_service>>
    /\ pc' = Serving
    /\ UNCHANGED <<config, store, embedded_fonts, STATIC_FILES, workers, disk,
                   port_free, log, last>>

\* Whether handling the request dereferences STATIC_FILES.
UsesDefault(routed, dsk, dflt, path) ==
    /\ IsSome(dflt)
    /\ Stage(routed, dsk, dflt, path) = "embedded"

\* A GET request is routed and handled.
Dispatch ==
    /\ pc = Serving
    /\ \E req \in RouteRequests :
         LET routed == Route(app, req.path, 1)
             table == Deref(STATIC_FILES)[1]
             resp == IF routed = None
                     THEN DefaultResponse(default_service, table, req.path)
                     ELSE IF routed[1].kind = "files"
                     THEN FilesResponse(routed[1], disk, default_service, table, req.path)
                     ELSE ResourceResponse(routed[1].handler, config, store,
                                           embedded_fonts, req)
         IN  /\ last' = [req |-> Some(req),
                         resp |-> Some(Compress(None, resp)),
                         call |-> Some(Stage(routed, disk, default_service, req.path))]
             /\ STATIC_FILES' = IF UsesDefault(routed, disk, default_service, req.path)
                                THEN Deref(STATIC_FILES) ELSE STATIC_FILES
    /\ UNCHANGED <<config, store, embedded_fonts, workers, disk, pc, port_free,
                   app, default_service, log>>

RouteNext ==
    \/ Bind
    \/ RegisterApi
    \/ RegisterStaticDir
    \/ RegisterViewer
    \/ Dispatch

RouteSpec == RouteInit /\ [][RouteNext]_vars

--------------------------------------------------------------------------
(* Properties of start-up and routing *)

\* Positions of the configured directories that exist on disk.
Existing == {i \in 1..Len(config.static_) : disk[config.static_[i].dir] # None}

Least(S) == CHOOSE i \in S : \A j \in S : i <= j

\* The fixed API routes matching a path, by position in the route table.
ApiMatches(path) == {k \in 1..Len(ApiServices) : MatchPattern(ApiServices[k].pattern, path)}

\* Existing configured directories holding the path under their mount.
Containing(path) ==
    {i \in Existing :
        /\ UnderMount(config.static_[i].path, path)
        /\ BelowMount(config.static_[i].path, path) \in DirFiles(config.static_[i].dir)}

\* Existing configured directories whose mount the path lies under.
Mounting(path) == {i \in Existing : UnderMount(config.static_[i].path, path)}

\* What the embedded assets answer for a path.
EmbeddedAnswer(path) ==
    IF Tail(path) \in EmbeddedKeys
    THEN [status |-> 200, body |-> Body(<<>>, <<"embedded", Tail(path)>>)]
    ELSE [status |-> 404, body |-> EmptyBody]

DirAnswer(i, path) ==
    [status |-> 200,
     body |-> FileBody(config.static_[i].dir, BelowMount(config.static_[i].path, path))]

Answer(resp) == [status |-> resp.status, body |-> resp.body]

\* C6 as stated: API routes first, /drilldown among them; then the first
\* configured directory in declaration order that contains the path; then
\* the embedded assets, only with the viewer enabled; NotFound otherwise.
C6_Claim ==
    IsSome(last.resp) =>
        LET path == last.req[1].path
            stage == last.call[1]
        IN  IF ApiMatches(path) # {}
            THEN stage = ApiServices[Least(ApiMatches(path))].handler
            ELSE IF config.viewer /\ path = <<"/", "drilldown">>
            THEN stage = "drilldown_handler"
            ELSE IF Containing(path) # {}
            THEN /\ stage = "files"
                 /\ Answer(last.resp[1]) = DirAnswer(Least(Containing(path)), path)
            ELSE IF config.viewer
            THEN stage = "embedded" /\ Answer(last.resp[1]) = EmbeddedAnswer(path)
            ELSE stage = "notfound" /\ last.resp[1].status = 404

\* C6 amended: a path is resolved by exactly one stage, in registration
\* order: the seven fixed API routes first; then the existing configured
\* directories in declaration order, where the first one whose mount the
\* path lies under takes the request whether or not it holds the file, and
\* no later directory is consulted; then, with the viewer enabled,
\* /drilldown; then the embedded assets, consulted only with the viewer
\* enabled, when nothing earlier matched or the directory that took the
\* request lacks the file.  A path held by that directory and by the
\* embedded assets gets the directory's content, and with the viewer
\* disabled a path nothing serves is NotFound.
C6_Registered ==
    IsSome(last.resp) =>
        LET path == last.req[1].path
            stage == last.call[1]
            fallback == IF config.viewer
                        THEN stage = "embedded"
                             /\ Answer(last.resp[1]) = EmbeddedAnswer(path)
                        ELSE stage = "notfound" /\ last.resp[1].status = 404
        IN  IF ApiMatches(path) # {}
            THEN stage = ApiServices[Least(ApiMatches(path))].handler
            ELSE IF Mounting(path) # {}
            THEN IF Least(Mounting(path)) \in Containing(path)
                 THEN /\ stage = "files"
                      /\ Answer(last.resp[1]) = DirAnswer(Least(Mounting(path)), path)
                 ELSE fallback
            ELSE IF config.viewer /\ path = <<"/", "drilldown">>
            THEN stage = "drilldown_handler" /\ last.resp[1].status = 200
            ELSE fallback

\* Two existing directories are mounted at "/", both hold /index.html and
\* so do the embedded assets; the first directory's file is served.
C6_Witness ==
    /\ IsSome(last.resp)
    /\ config.viewer
    /\ last.req[1].path = <<"/", "index", ".", "html">>
    /\ Cardinality(Containing(last.req[1].path)) = 2
    /\ config.static_[1].dir # config.static_[2].dir
    /\ Tail(last.req[1].path) \in EmbeddedKeys
    /\ last.resp[1].body = FileBody(config.static_[1].dir, <<"index", ".", "html">>)

\* The Files services of an App, in registration order.
FilesOf(services) == SelectSeq(services, LAMBDA svc : svc.kind = "files")

RECURSIVE ExpectedFiles(_, _)
ExpectedFiles(static_dirs, dsk) ==
    IF Len(static_dirs) = 0 THEN <<>>
    ELSE LET sd == static_dirs[1]
         IN  (IF dsk[sd.dir] # None
              THEN << [kind |-> "files", mount |-> sd.path, dir |-> sd.dir] >>
              ELSE <<>>)
             \o ExpectedFiles(Tail(static_dirs), dsk)

Warnings(lg) == SelectSeq(lg, LAMBDA rec : rec[1] = "warn")

RECURSIVE ExpectedWarnings(_, _)
ExpectedWarnings(static_dirs, dsk) ==
    IF Len(static_dirs) = 0 THEN <<>>
    ELSE (IF dsk[static_dirs[1].dir] = None
          THEN << <<"warn", static_dirs[1].dir>> >> ELSE <<>>)
         \o ExpectedWarnings(Tail(static_dirs), dsk)

\* C10: a configured static directory missing on disk is skipped with a
\* warning and is never fatal: start-up stops only when the address cannot
\* be bound, every step of it can be taken until the server runs, and the
\* running App holds every API route and a Files service for exactly the
\* existing configured directories, in order; each missing directory has
\* its warning and no route.
C10_MissingDirSkipped ==
    /\ pc.at = "failed" => ~port_free
    /\ pc.at \notin {"failed", "serving"} => ENABLED RouteNext
    /\ pc = Serving =>
         /\ SubSeq(app, 1, Len(ApiServices)) = ApiServices
         /\ FilesOf(app) = ExpectedFiles(config.static_, disk)
         /\ Warnings(log) = ExpectedWarnings(config.static_, disk)
         /\ \A i \in 1..Len(app) :
              app[i].kind = "files" => disk[app[i].dir] # None

\* A missing directory is configured before an existing one; the server
\* runs and serves a file of the existing one.
C10_Witness ==
    /\ pc = Serving
    /\ Len(config.static_) = 2
    /\ disk[config.static_[1].dir] = None
    /\ disk[config.static_[2].dir] # None
    /\ Len(Warnings(log)) = 1
    /\ IsSome(last.call) /\ last.call[1] = "files"

=============================================================================
